---- MODULE Spec2Model ----
(***************************************************************************)
(* A model of minihex.py: the Hex board state (HexGame), its incremental   *)
(* region tracker (flood_fill) and the turn-taking harness (HexEnv).       *)
(*                                                                         *)
(* Python objects are records; numpy arrays are functions over 0-based     *)
(* index ranges; Python's None is the empty tuple and a present value v is *)
(* the one-element tuple <<v>>.  An operation that can raise returns a     *)
(* record carrying the object as the exception left it and the exception.  *)
(*                                                                         *)
(* A second game object, twin, is what copy() returned; shared names the   *)
(* array attributes that game and twin hold by reference to one and the    *)
(* same array, so that a write through either object shows in both.        *)
(***************************************************************************)
EXTENDS Integers, Sequences, FiniteSets, TLC

VARIABLES game, env, config, outcome, twin, shared

vars == <<game, env, config, outcome, twin, shared>>

-----------------------------------------------------------------------------
(* Bounds of the exploration.                                              *)

\* Largest board side explored (boards of side 1..MaxBoardSize).
MaxBoardSize == 3

\* Number of accepted calls explored per game under RawSpec, where the
\* caller may pass any action.
MaxRawCalls == 3

\* Largest board side explored under EnvSpec, where every step holds a move
\* of the caller and a move of the opponent.
MaxEnvBoardSize == 2

\* How far beyond [-N*N, N*N) the submitted action identifiers reach.
MaxOvershoot == 1

\* Number of stones on either board under CopySpec, where a game and its
\* copy are both played on.
MaxCopyDepth == 4

\* Number of cells in which a game and its copy are played apart under
\* CopySpec.
MaxApart == 2

\* Number of moves explored under FilledSpec on a game constructed from a
\* board that holds stones.
MaxFilledMoves == 2

-----------------------------------------------------------------------------
(* class player(IntEnum)                                                   *)

BLACK == 0
WHITE == 1
EMPTY == 2

None == <<>>
Some(v) == <<v>>

Colors == {BLACK, WHITE}

-----------------------------------------------------------------------------
(* numpy indexing                                                          *)

\* Index i of an axis of length len: negative indices count from the end.
PyIndex(i, len) == IF i < 0 THEN i + len ELSE i

\* Whether numpy accepts the index i on an axis of length len.
PyInBounds(i, len) == (-len <= i) /\ (i < len)

\* A slice bound clipped the way Python clips it.
PyClip(b, len) ==
    LET n == IF b < 0 THEN b + len ELSE b
    IN  IF n < 0 THEN 0 ELSE IF n > len THEN len ELSE n

\* The indices selected by the slice start:stop on an axis of length len,
\* in order.
PySlice(start, stop, len) ==
    LET s == PyClip(start, len)
        e == PyClip(stop, len)
    IN  IF e <= s THEN <<>> ELSE [k \in 1..(e - s) |-> s + k - 1]

\* The exceptions the model distinguishes.
NoError == <<>>
IndexOutOfBounds == <<"IndexError", "index out of bounds">>
IllegalMove(coords) == <<"IndexError", "Illegal move", coords>>

-----------------------------------------------------------------------------
(* HexGame                                                                 *)

\* board.shape[1]
board_size(g) == Cardinality(DOMAIN g.board[0])

action_to_coordinate(g, action) ==
    LET y == action \div board_size(g)
        x == action - board_size(g) * y
    IN  <<y, x>>

\* The 3x3 window of the padded grid around (y, x), as a copy: a tuple of
\* rows, each a tuple of labels.
window(regions, y, x) ==
    LET len  == Cardinality(DOMAIN regions)
        rows == PySlice(y - 1, y + 2, len)
        cols == PySlice(x - 1, x + 2, len)
    IN  [i \in 1..Len(rows) |-> [j \in 1..Len(cols) |-> regions[rows[i]][cols[j]]]]

\* Whether the window has an element [i, j] (0-based, as in the source).
has_cell(w, i, j) == (i + 1 <= Len(w)) /\ (j + 1 <= Len(w[1]))

\* mask_corners with no corner cleared: the eight neighbours of the square
\* grid.
mask_no_corners(w) == w

\* mask_corners with all four corners cleared: the four neighbours of the
\* square grid.
mask_all_corners(w) ==
    [i \in 1..Len(w) |-> [j \in 1..Len(w[i]) |->
        IF i \in {1, 3} /\ j \in {1, 3} THEN 0 ELSE w[i][j]]]

\* neighborhood[0, 0] = 0; neighborhood[2, 2] = 0 on a full 3x3 window.
mask_corners(w) ==
    [i \in 1..Len(w) |-> [j \in 1..Len(w[i]) |->
        IF (i = 1 /\ j = 1) \/ (i = 3 /\ j = 3) THEN 0 ELSE w[i][j]]]

\* set(neighborhood.flatten().tolist())
labels_of(w) == UNION {{w[i][j] : j \in 1..Len(w[i])} : i \in 1..Len(w)}

Min(S) == CHOOSE m \in S : \A e \in S : m <= e

\* relabel that leaves the other adjacent regions as they are.
relabel_skip(regions, labels, new_label) == regions

\* regions[regions == label] = new_label for every label of the set.
relabel(regions, labels, new_label) ==
    [r \in DOMAIN regions |-> [c \in DOMAIN regions[r] |->
        IF regions[r][c] \in labels THEN new_label ELSE regions[r][c]]]

\* fresh_label that does not move the counter on.
fresh_label_reused(g, yy, xx) ==
    [g EXCEPT
        !.regions[g.active_player][yy][xx] = g.region_counter[g.active_player]]

\* Lines 164-165 of flood_fill: the cell gets the next label of the mover's
\* counter, which moves on.
fresh_label(g, yy, xx) ==
    [g EXCEPT
        !.regions[g.active_player][yy][xx] = g.region_counter[g.active_player],
        !.region_counter[g.active_player] =
            g.region_counter[g.active_player] + 1]

\* assign_label that takes the largest adjacent label for the smallest.
assign_label_largest(g, y, x, adjacent) ==
    LET p    == g.active_player
        len  == Cardinality(DOMAIN g.regions[p])
        yy   == PyIndex(y, len)
        xx   == PyIndex(x, len)
        last == CHOOSE m \in adjacent : \A e \in adjacent : e <= m
    IN  IF ~(PyInBounds(y, len) /\ PyInBounds(x, len))
        THEN [game |-> g, raised |-> IndexOutOfBounds]
        ELSE IF adjacent = {}
        THEN [game |-> fresh_label(g, yy, xx), raised |-> NoError]
        ELSE [game |-> [g EXCEPT !.regions[p] =
                  relabel([g.regions[p] EXCEPT ![yy][xx] = last],
                          adjacent \ {last}, last)],
              raised |-> NoError]

\* Lines 163-170 of flood_fill: the cell at (y, x) of the padded grid gets a
\* fresh label when no region is adjacent, else the smallest adjacent label,
\* to which every other adjacent region is rewritten.
assign_label(g, y, x, adjacent) ==
    LET p   == g.active_player
        len == Cardinality(DOMAIN g.regions[p])
        yy  == PyIndex(y, len)
        xx  == PyIndex(x, len)
    IN  IF ~(PyInBounds(y, len) /\ PyInBounds(x, len))
        THEN [game |-> g, raised |-> IndexOutOfBounds]
        ELSE IF adjacent = {}
        THEN [game |-> fresh_label(g, yy, xx), raised |-> NoError]
        ELSE [game |-> [g EXCEPT !.regions[p] =
                  relabel([g.regions[p] EXCEPT ![yy][xx] = Min(adjacent)],
                          adjacent \ {Min(adjacent)}, Min(adjacent))],
              raised |-> NoError]

\* Lines 158-161 of flood_fill: sorted(set(...)) and pop(0), which drops the
\* smallest label present.
adjacent_regions(neighborhood) ==
    labels_of(neighborhood) \ {Min(labels_of(neighborhood))}

\* Lines 156-170 of flood_fill, w being the copied window: writing its two
\* corners raises when the window is short of them.
fill_window(g, y, x, w) ==
    IF ~(has_cell(w, 0, 0) /\ has_cell(w, 2, 2))
    THEN [game |-> g, raised |-> IndexOutOfBounds]
    ELSE assign_label(g, y, x, adjacent_regions(mask_corners(w)))

flood_fill(g, position) ==
    fill_window(g, position[1] + 1, position[2] + 1,
                window(g.regions[g.active_player],
                       position[1] + 1, position[2] + 1))

\* board[y, x]: whether numpy accepts the index pair.
on_board(g, y, x) ==
    PyInBounds(y, board_size(g)) /\ PyInBounds(x, board_size(g))

\* board[y, x]
cell(g, y, x) ==
    g.board[PyIndex(y, board_size(g))][PyIndex(x, board_size(g))]

\* check_terminal that ends the game only on a win that fills the board.
check_terminal_both(g) ==
    LET regions == g.regions[g.active_player]
        last    == Cardinality(DOMAIN regions) - 1
    IN  IF regions[last][last] = 1 /\ g.empty_fields <= 0
        THEN [g EXCEPT !.done = TRUE, !.winner = Some(g.active_player)]
        ELSE g

\* Lines 130-135 of fast_move: the win check and the full-board check.
check_terminal(g) ==
    LET regions == g.regions[g.active_player]
        last    == Cardinality(DOMAIN regions) - 1
    IN  IF regions[last][last] = 1
        THEN [g EXCEPT !.done = TRUE, !.winner = Some(g.active_player)]
        ELSE IF g.empty_fields <= 0
        THEN [g EXCEPT !.done = TRUE]
        ELSE g

\* place_stone that does not count the stone.
place_stone_uncounted(g, y, x) ==
    [g EXCEPT
        !.board[PyIndex(y, board_size(g))][PyIndex(x, board_size(g))] =
            g.active_player]

\* Lines 125-126 of fast_move: the stone is written and counted.
place_stone(g, y, x) ==
    [g EXCEPT
        !.board[PyIndex(y, board_size(g))][PyIndex(x, board_size(g))] =
            g.active_player,
        !.empty_fields = g.empty_fields - 1]

\* hand_over that keeps the turn with the mover once the game is done.
hand_over_unless_done(g) ==
    IF g.done THEN g
    ELSE [g EXCEPT !.active_player = (g.active_player + 1) % 2]

\* Line 137 of fast_move.
hand_over(g) == [g EXCEPT !.active_player = (g.active_player + 1) % 2]

\* Line 138 of fast_move.
return_winner(g) == [game |-> g, raised |-> NoError, ret |-> g.winner]

\* finish_move that hands the turn over before it checks for a win.
finish_move_handed_first(filled) ==
    IF filled.raised # NoError
    THEN [game |-> filled.game, raised |-> filled.raised, ret |-> None]
    ELSE return_winner(check_terminal(hand_over(filled.game)))

\* Lines 130-138 of fast_move, filled being what flood_fill left.
finish_move(filled) ==
    IF filled.raised # NoError
    THEN [game |-> filled.game, raised |-> filled.raised, ret |-> None]
    ELSE return_winner(hand_over(check_terminal(filled.game)))

\* Lines 125-138 of fast_move.
move_to(g, coords) ==
    IF ~on_board(g, coords[1], coords[2])
    THEN [game |-> g, raised |-> IndexOutOfBounds, ret |-> None]
    ELSE finish_move(flood_fill(place_stone(g, coords[1], coords[2]), coords))

fast_move(g, action) == move_to(g, action_to_coordinate(g, action))

is_valid_move(g, action) ==
    LET coords == action_to_coordinate(g, action)
    IN  IF ~on_board(g, coords[1], coords[2])
        THEN [raised |-> IndexOutOfBounds, ret |-> FALSE]
        ELSE [raised |-> NoError,
              ret |-> (cell(g, coords[1], coords[2]) = EMPTY)]

\* Lines 111-115 of make_move_debug, valid being what is_valid_move gave.
checked_move(g, action, valid) ==
    IF valid.raised # NoError
    THEN [game |-> g, raised |-> valid.raised, ret |-> None]
    ELSE IF ~valid.ret
    THEN [game |-> g,
          raised |-> IllegalMove(action_to_coordinate(g, action)),
          ret |-> None]
    ELSE fast_move(g, action)

make_move_debug(g, action) ==
    checked_move(g, action, is_valid_move(g, action))

\* make_move bound to fast_move whatever the mode.
make_move_always_fast(g, action) == fast_move(g, action)

\* self.make_move, bound by the constructor to one of the two.
make_move(g, action) ==
    IF g.debug THEN make_move_debug(g, action) ELSE fast_move(g, action)

\* get_possible_actions(): the action identifiers of the empty cells.
get_possible_actions(g) ==
    {a \in 0..(board_size(g) * board_size(g) - 1) :
        g.board[a \div board_size(g)][a % board_size(g)] = EMPTY}

-----------------------------------------------------------------------------
(* HexGame.__init__                                                        *)

\* The default of the constructors' debug parameter.
default_debug == FALSE

\* np.count_nonzero(board == player.EMPTY)
count_empty(board) ==
    Cardinality({rc \in (DOMAIN board) \X (DOMAIN board[0]) :
                    board[rc[1]][rc[2]] = EMPTY})

\* border_regions with the two sentinels swapped: 2 on the near edges, 1 on
\* the far edges.
border_regions_swapped(n) ==
    [p \in Colors |-> [r \in 0..(n + 1) |-> [c \in 0..(n + 1) |->
        IF p = WHITE
        THEN (IF c = n + 1 THEN 1 ELSE IF c = 0 THEN 2 ELSE 0)
        ELSE (IF r = n + 1 THEN 1 ELSE IF r = 0 THEN 2 ELSE 0)]]]

\* The padded region grids of a board of side n with only the borders set.
border_regions(n) ==
    [p \in Colors |-> [r \in 0..(n + 1) |-> [c \in 0..(n + 1) |->
        IF p = WHITE
        THEN (IF c = n + 1 THEN 2 ELSE IF c = 0 THEN 1 ELSE 0)
        ELSE (IF r = n + 1 THEN 2 ELSE IF r = 0 THEN 1 ELSE 0)]]]

\* np.max(regions[p])
max_label(regions) ==
    LET present == UNION {{regions[r][c] : c \in DOMAIN regions[r]} :
                             r \in DOMAIN regions}
    IN  CHOOSE m \in present : \A e \in present : e <= m

\* replay_stone that inserts the stone under the color the caller stated as
\* active.
replay_stone_as_active(g, value, y, x) == flood_fill(g, <<y, x>>).game

\* Lines 78-83 of the constructor: insert is replayed for the stone of color
\* value at (y, x) under that color.
replay_stone(g, value, y, x) ==
    flood_fill([g EXCEPT !.active_player = value], <<y, x>>).game

\* The constructor's loop over the supplied board from cell number k on, in
\* row-major order: insert is replayed for every stone under its own color.
\* (h is the game g, evaluated once.)
RECURSIVE replay(_, _)
replay(g, k) ==
    CHOOSE r \in
        {LET n == board_size(h)
         IN  IF k >= n * n THEN h
             ELSE LET y == k \div n
                      x == k % n
                      value == h.board[y][x]
                  IN  IF value \in Colors
                      THEN replay(replay_stone(h, value, y, x), k + 1)
                      ELSE replay(h, k + 1) : h \in {g}} : TRUE

\* fields with each counter at the largest label present, not one beyond.
fields_counter_at_max(active_player, board, regions, debug) ==
    [board          |-> board,
     empty_fields   |-> count_empty(board),
     debug          |-> debug,
     regions        |-> regions,
     region_counter |-> [p \in Colors |-> max_label(regions[p])],
     active_player  |-> active_player,
     done           |-> FALSE,
     winner         |-> None]

\* Lines 45-73 of the constructor, regions being the region grids it starts
\* from.
fields(active_player, board, regions, debug) ==
    [board          |-> board,
     empty_fields   |-> count_empty(board),
     debug          |-> debug,
     regions        |-> regions,
     region_counter |-> [p \in Colors |-> max_label(regions[p]) + 1],
     active_player  |-> active_player,
     done           |-> FALSE,
     winner         |-> None]

\* Lines 75-87 of the constructor.
construct(active_player, g, do_replay) ==
    [(IF do_replay THEN replay(g, 0) ELSE g)
        EXCEPT !.active_player = active_player]

\* HexGame(active_player, board, connected_stones, debug); connected_stones
\* and debug are None when the caller leaves them out.
HexGame(active_player, board, connected_stones, debug) ==
    construct(active_player,
              fields(active_player, board,
                     IF connected_stones = None
                     THEN border_regions(Cardinality(DOMAIN board[0]))
                     ELSE connected_stones[1],
                     IF debug = None THEN default_debug ELSE debug[1]),
              connected_stones = None)

\* ndarray.copy() that gives the array itself, as a view does.
ndarray_view(attribute) == {attribute}

\* ndarray.copy() of the array an attribute names: the attributes of the
\* result that still name the array copied from, which are none.
ndarray_copy(attribute) == {}

\* copy() that leaves the new game as its constructor made it.
copy_unfinished(g) ==
    [game   |-> HexGame(g.active_player, g.board, Some(g.regions), None),
     shared |-> ndarray_copy("board") \cup ndarray_copy("regions")]

\* copy(): the new game, and the array attributes it shares with g.
copy(g) ==
    [game   |-> [HexGame(g.active_player, g.board, Some(g.regions), None)
                    EXCEPT !.done = g.done, !.winner = g.winner],
     shared |-> ndarray_copy("board") \cup ndarray_copy("regions")]

\* The constructor keeps the arrays it is given by reference: the object
\* other as it reads once the arrays of g have been written, aliased being
\* the attributes the two hold in common.
write_through(other, g, aliased) ==
    IF aliased = {} THEN other
    ELSE [other EXCEPT
             !.board   = IF "board" \in aliased THEN g.board ELSE @,
             !.regions = IF "regions" \in aliased THEN g.regions ELSE @]

\* player.EMPTY * np.ones((board_size, board_size))
empty_board(n) == [r \in 0..(n - 1) |-> [c \in 0..(n - 1) |-> EMPTY]]

-----------------------------------------------------------------------------
(* HexEnv                                                                  *)

\* The default of HexEnv's debug parameter.
env_default_debug == FALSE

\* HexEnv(opponent_policy, player_color, active_player, board=None,
\*        regions=None, board_size, debug); debug is None when left out.
HexEnv(player_color, active_player, n, debug) ==
    [initial_board          |-> empty_board(n),
     active_player          |-> active_player,
     player                 |-> player_color,
     simulator              |-> None,
     winner                 |-> None,
     previous_opponent_move |-> None,
     debug                  |-> IF debug = None THEN env_default_debug
                                ELSE debug[1],
     initial_regions        |-> None]

opponent(e) == (e.player + 1) % 2

\* What an opponent policy keeping to its contract may answer on the board
\* of g: the identifier of any empty cell, as random_policy does.
policy_answers(g) == get_possible_actions(g)

\* Lines 299-301 of opponent_move, r being what make_move gave.
opponent_moved(e, opponent_action, r) ==
    IF r.raised # NoError
    THEN [env |-> e, game |-> r.game, raised |-> r.raised]
    ELSE [env |-> [e EXCEPT !.winner = r.ret,
                      !.previous_opponent_move = Some(opponent_action)],
          game |-> r.game, raised |-> NoError]

\* opponent_move(info), the policy having answered opponent_action.
opponent_move(e, g, opponent_action) ==
    opponent_moved(e, opponent_action, make_move(g, opponent_action))

\* Lines 208-219 of reset: the game it constructs.
new_simulator(e) ==
    HexGame(e.active_player, e.initial_board, e.initial_regions,
            Some(e.debug))

\* Lines 231-237 of reset, mid being the state after the opponent's move,
\* if any.
reset_result(mid) ==
    [env |-> mid.env, game |-> mid.game, raised |-> mid.raised,
     ret |-> IF mid.raised # NoError THEN None
             ELSE Some([active_player |-> mid.env.active_player,
                        last_move_opponent |->
                            mid.env.previous_opponent_move])]

\* reset_opening that never lets the opponent open.
reset_opening_never(e, sim, opponent_action) ==
    [env |-> e, game |-> sim, raised |-> NoError]

\* Lines 221-229 of reset, e holding the new simulator sim.
reset_opening(e, sim, opponent_action) ==
    IF e.player # e.active_player
    THEN opponent_move(e, sim, opponent_action)
    ELSE [env |-> e, game |-> sim, raised |-> NoError]

\* Lines 208-221 of reset: the simulator is stored, its regions are cached
\* on the first reset.
reset_fields(e, sim) ==
    [e EXCEPT
        !.simulator = Some("game"),
        !.initial_regions = IF e.initial_regions = None
                            THEN Some(sim.regions)
                            ELSE e.initial_regions,
        !.previous_opponent_move = None]

reset_with(e, sim, opponent_action) ==
    reset_result(reset_opening(reset_fields(e, sim), sim, opponent_action))

\* reset(), the policy answering opponent_action if it is asked.
reset(e, opponent_action) == reset_with(e, new_simulator(e), opponent_action)

\* Line 241 of step, r being what make_move gave.
player_moved(e, r) ==
    IF r.raised # NoError
    THEN [env |-> e, game |-> r.game, raised |-> r.raised]
    ELSE [env |-> [e EXCEPT !.winner = r.ret], game |-> r.game,
          raised |-> NoError]

\* player_move that applies the caller's action to a done game too.
player_move_always(e, g, action) == player_moved(e, make_move(g, action))

\* Lines 240-241 of step: the caller's action is applied unless the game is
\* done.
player_move(e, g, action) ==
    IF ~g.done
    THEN player_moved(e, make_move(g, action))
    ELSE [env |-> e, game |-> g, raised |-> NoError]

\* Line 251 of step, r being what opponent_move gave.
opponent_replied(r, opponent_action) ==
    [env |-> r.env, game |-> r.game, raised |-> r.raised,
     opponent_action |-> Some(opponent_action)]

\* Lines 243-251 of step: the opponent is asked unless the game is done.
opponent_reply(e, g, opponent_action) ==
    IF ~g.done
    THEN opponent_replied(opponent_move(e, g, opponent_action),
                          opponent_action)
    ELSE [env |-> e, game |-> g, raised |-> NoError,
          opponent_action |-> None]

\* Lines 253-258 of step.
reward(e) ==
    IF e.winner = Some(e.player) THEN 1
    ELSE IF e.winner = Some(opponent(e)) THEN -1
    ELSE 0

\* Lines 253-267 of step, second being the state after the opponent's reply,
\* if any.
step_result(second, action) ==
    IF second.raised # NoError
    THEN [env |-> second.env, game |-> second.game,
          raised |-> second.raised, ret |-> None]
    ELSE [env |-> second.env, game |-> second.game, raised |-> NoError,
          ret |-> Some([active_player |-> second.env.active_player,
                        reward |-> reward(second.env),
                        done |-> second.game.done,
                        last_move_opponent |-> second.opponent_action,
                        last_move_player |-> action])]

\* Lines 243-267 of step, first being the state after the caller's move.
step_on(first, action, opponent_action) ==
    IF first.raised # NoError
    THEN [env |-> first.env, game |-> first.game,
          raised |-> first.raised, ret |-> None]
    ELSE step_result(opponent_reply(first.env, first.game, opponent_action),
                     action)

\* step(action), the policy answering opponent_action if it is asked.
step(e, g, action, opponent_action) ==
    step_on(player_move(e, g, action), action, opponent_action)

-----------------------------------------------------------------------------
(* The game driven directly by a caller of make_move.                      *)

NoGame == [allocated |-> FALSE]
NoEnv  == [allocated |-> FALSE]
AttributeError == <<"AttributeError", "'NoneType' object has no attribute">>

BoardSizes == 1..MaxBoardSize
DebugArgs  == {None, Some(TRUE), Some(FALSE)}

\* The action identifiers a caller may submit to a game: every cell, and
\* identifiers beyond both ends of [-N*N, N*N).
Submitted(g) ==
    LET n == board_size(g)
    IN  (-(n * n) - MaxOvershoot)..(n * n - 1 + MaxOvershoot)

\* The number of calls that have written to the board so far: every such
\* call takes one from empty_fields.
Written(g) == board_size(g) * board_size(g) - g.empty_fields

\* A game constructed from an empty board with the given debug argument;
\* config keeps the arguments the caller passed.
Construct(debug) ==
    /\ \E n \in BoardSizes, active \in Colors :
          /\ game = HexGame(active, empty_board(n), None, debug)
          /\ config = [class |-> "HexGame", board_size |-> n,
                       active_player |-> active, debug |-> debug]
    /\ outcome = [op |-> "init", action |-> 0, raised |-> NoError,
                  ret |-> None]
    /\ env = NoEnv
    /\ twin = NoGame
    /\ shared = {}

\* The call make_move(action) having given r.
Returned(action, r) ==
    /\ game' = r.game
    /\ outcome' = [op |-> "make_move", action |-> action,
                   raised |-> r.raised, ret |-> r.ret]
    /\ twin' = write_through(twin, r.game, shared)
    /\ UNCHANGED <<env, config, shared>>

\* game.make_move(action)
MakeMove(action) == Returned(action, make_move(game, action))

\* Spec: a game in the default mode or in safe mode, whose caller keeps to
\* the contract of make_move and plays empty cells only (the game itself
\* does not refuse a move once it is done).
Init == \E debug \in {None, Some(TRUE)} : Construct(debug)

Next == \E action \in get_possible_actions(game) : MakeMove(action)

Spec == Init /\ [][Next]_vars

\* RawSpec: the caller submits any action identifier, in any mode.
RawInit == \E debug \in DebugArgs : Construct(debug)

RawNext ==
    /\ Written(game) < MaxRawCalls
    /\ \E action \in Submitted(game) : MakeMove(action)

RawSpec == RawInit /\ [][RawNext]_vars

-----------------------------------------------------------------------------
(* A game and its copy, each driven by a caller playing empty cells.       *)

\* There is a copy.
Copied == "board" \in DOMAIN twin

\* twin = game.copy(), taken once in the life of a game.
Copy ==
    /\ ~Copied
    /\ twin' = copy(game).game
    /\ shared' = copy(game).shared
    /\ outcome' = [op |-> "copy", action |-> 0, raised |-> NoError,
                   ret |-> None]
    /\ UNCHANGED <<game, env, config>>

\* The call make_move(action) on the copy having given r.
TwinReturned(action, r) ==
    /\ twin' = r.game
    /\ game' = write_through(game, r.game, shared)
    /\ outcome' = [op |-> "twin.make_move", action |-> action,
                   raised |-> r.raised, ret |-> r.ret]
    /\ UNCHANGED <<env, config, shared>>

\* twin.make_move(action)
TwinMove(action) == TwinReturned(action, make_move(twin, action))

\* The number of cells in which the boards of the game and of its copy
\* differ; none before there is a copy.
Apart ==
    IF ~Copied THEN 0
    ELSE Cardinality({rc \in (DOMAIN game.board) \X (DOMAIN game.board[0]) :
                         game.board[rc[1]][rc[2]] # twin.board[rc[1]][rc[2]]})

CopyNext ==
    \/ /\ Written(game) < MaxCopyDepth /\ Apart < MaxApart
       /\ \E action \in get_possible_actions(game) : MakeMove(action)
    \/ Copy
    \/ /\ Copied
       /\ Written(twin) < MaxCopyDepth /\ Apart < MaxApart
       /\ \E action \in get_possible_actions(twin) : TwinMove(action)

CopySpec == Init /\ [][CopyNext]_vars

-----------------------------------------------------------------------------
(* A game constructed from a board that may hold stones, without region    *)
(* grids, and then played on empty cells.                                  *)

\* The boards of side n a caller may supply.
Boards(n) == [0..(n - 1) -> [0..(n - 1) -> {BLACK, WHITE, EMPTY}]]

\* HexGame(active, board): config keeps the arguments, the board among them.
FilledInit ==
    /\ \E n \in BoardSizes, active \in Colors :
          \E board \in Boards(n) :
              /\ game = HexGame(active, board, None, None)
              /\ config = [class |-> "HexGame", board_size |-> n,
                           active_player |-> active, debug |-> None,
                           board |-> board]
    /\ outcome = [op |-> "init", action |-> 0, raised |-> NoError,
                  ret |-> None]
    /\ env = NoEnv
    /\ twin = NoGame
    /\ shared = {}

\* The number of moves made since the construction.
MovesMade == count_empty(config.board) - game.empty_fields

\* A game that started from an empty board is played to the end, one that
\* started from stones for MaxFilledMoves moves.
FilledNext ==
    /\ \/ config.board = empty_board(config.board_size)
       \/ MovesMade < MaxFilledMoves
    /\ \E action \in get_possible_actions(game) : MakeMove(action)

FilledSpec == FilledInit /\ [][FilledNext]_vars

-----------------------------------------------------------------------------
(* The harness: a HexEnv on an empty board, its caller and its opponent.   *)

EnvInit ==
    /\ \E n \in 1..MaxEnvBoardSize, player_color \in Colors, active \in Colors,
          debug \in {None, Some(TRUE)} :
          /\ env = HexEnv(player_color, active, n, debug)
          /\ config = [class |-> "HexEnv", board_size |-> n,
                       active_player |-> active, debug |-> debug]
    /\ game = NoGame
    /\ outcome = [op |-> "init", action |-> 0, raised |-> NoError,
                  ret |-> None]
    /\ twin = NoGame
    /\ shared = {}

\* The call op(action) on the harness having given r.
EnvReturned(op, action, r) ==
    /\ env' = r.env
    /\ game' = r.game
    /\ outcome' = [op |-> op, action |-> action, raised |-> r.raised,
                   ret |-> r.ret]
    /\ UNCHANGED <<config, twin, shared>>

\* The answers the policy may give when asked about game g, and a
\* placeholder when it is not asked.
Answers(asked, g) == IF asked THEN policy_answers(g) ELSE {0}

\* env.reset(): the policy is asked when the opponent is to move first.
Reset ==
    \E o \in Answers(env.player # env.active_player, new_simulator(env)) :
        EnvReturned("reset", 0, reset(env, o))

\* env.step(action) before any reset: there is no simulator.
StepUnset(action) ==
    /\ env.simulator = None
    /\ outcome' = [op |-> "step", action |-> action,
                   raised |-> AttributeError, ret |-> None]
    /\ UNCHANGED <<env, game, config, twin, shared>>

\* env.step(action), first being the state after the caller's move: the
\* policy is asked when the game goes on after it.
StepOn(action, first) ==
    \E o \in Answers(first.raised = NoError /\ ~first.game.done, first.game) :
        EnvReturned("step", action, step_on(first, action, o))

\* env.step(action)
Step(action) ==
    /\ env.simulator # None
    /\ StepOn(action, player_move(env, game, action))

\* The actions the caller of step submits: an empty cell while the game
\* goes on, any cell once it is done or before there is a game.
StepInputs ==
    IF env.simulator # None /\ ~game.done
    THEN get_possible_actions(game)
    ELSE 0..(config.board_size * config.board_size - 1)

EnvNext ==
    \/ Reset
    \/ \E action \in StepInputs : StepUnset(action)
    \/ \E action \in StepInputs : Step(action)

EnvSpec == EnvInit /\ [][EnvNext]_vars

-----------------------------------------------------------------------------
(* A reference for connectivity, computed from the board alone.            *)

HexOffsets == {<<-1, 0>>, <<-1, 1>>, <<0, -1>>, <<0, 1>>, <<1, -1>>, <<1, 0>>}

HexAdjacent(p, q) == <<q[1] - p[1], q[2] - p[2]>> \in HexOffsets

\* The nodes reachable from seen, the last of which were found in front, by
\* steps between hex-adjacent nodes through the nodes left.
RECURSIVE Flood(_, _, _)
Flood(left, seen, front) ==
    LET more == {q \in left : \E p \in front : HexAdjacent(p, q)}
    IN  IF more = {} THEN seen
        ELSE Flood(left \ more, seen \cup more, more)

\* The nodes of S reachable from start by steps between hex-adjacent nodes.
Grow(S, start) == Flood(S \ start, start, start)

Cells(g) == (0..(board_size(g) - 1)) \X (0..(board_size(g) - 1))

Stones(g, c) == {p \in Cells(g) : g.board[p[1]][p[2]] = c}

NearEdge(g, c) ==
    {p \in Cells(g) : IF c = BLACK THEN p[1] = 0 ELSE p[2] = 0}

FarEdge(g, c) ==
    {p \in Cells(g) : IF c = BLACK THEN p[1] = board_size(g) - 1
                                   ELSE p[2] = board_size(g) - 1}

\* A chain of stones of color c joins c's two edges.
RefConnected(g, c) ==
    Grow(Stones(g, c), Stones(g, c) \cap NearEdge(g, c))
        \cap FarEdge(g, c) # {}

\* Two stones of color c are joined by a chain of stones of color c.
RefJoined(g, c, p, q) == q \in Grow(Stones(g, c), {p})

\* The label of the real cell p in c's region grid, and c's corner label.
Label(g, c, p) == g.regions[c][p[1] + 1][p[2] + 1]

Corner(g, c) == g.regions[c][board_size(g) + 1][board_size(g) + 1]

\* The board of g with the cell of action identifier a emptied.
Without(g, a) ==
    [g EXCEPT !.board[a \div board_size(g)][a % board_size(g)] = EMPTY]

\* The last call was an accepted move that completed a chain of color c.
Completed(c) ==
    /\ outcome.op = "make_move" /\ outcome.raised = NoError
    /\ RefConnected(game, c)
    /\ ~RefConnected(Without(game, outcome.action), c)

-----------------------------------------------------------------------------
(* The claims.                                                             *)

\* C1: no false negatives.  After every move of a game played on empty
\* cells, a color whose stones join its two edges has corner label 1, the
\* game is done and that color is the winner; so the move that completes a
\* chain reports the win in that same call.
C1_NoFalseNegatives ==
    \A c \in Colors :
        RefConnected(game, c) =>
            /\ Corner(game, c) = 1
            /\ game.done
            /\ game.winner = Some(c)
            /\ (Completed(c) => outcome.ret = Some(c))

\* Scenario A: on a 3x3 board Black holds the centre and the two other
\* cells of the diagonal, the last of them just played.
C1_Witness ==
    /\ board_size(game) = 3
    /\ Stones(game, BLACK) = {<<0, 2>>, <<1, 1>>, <<2, 0>>}
    /\ Completed(BLACK)
    /\ outcome.action \in {2, 6}
    /\ game.done /\ game.winner = Some(BLACK)

\* C2: no false positives.  A color whose stones do not join its two edges
\* has a corner label other than 1 and is not the winner.
C2_NoFalsePositives ==
    \A c \in Colors :
        ~RefConnected(game, c) =>
            /\ Corner(game, c) # 1
            /\ game.winner # Some(c)

\* Black holds the three cells of the other diagonal of a 3x3 board, which
\* touch both of Black's edges but are not hex-adjacent to each other.
C2_Witness ==
    /\ board_size(game) = 3
    /\ Stones(game, BLACK) = {<<0, 0>>, <<1, 1>>, <<2, 2>>}
    /\ ~RefConnected(game, BLACK) /\ ~RefConnected(game, WHITE)
    /\ Corner(game, BLACK) = 2
    /\ ~game.done

\* C3 as stated: two stones of a color carry the same label if and only if
\* a chain of stones of that color joins them on the board.
C3_AsStated ==
    \A c \in Colors : \A p \in Stones(game, c) :
        LET joined == Grow(Stones(game, c), {p})
        IN  \A q \in Stones(game, c) :
                (Label(game, c, p) = Label(game, c, q)) <=> (q \in joined)

\* The padded grid of color c: its stones, and the cells of its two border
\* lines (rows 0 and N+1 for Black, columns 0 and N+1 for White).
PaddedNodes(g, c) ==
    {<<p[1] + 1, p[2] + 1>> : p \in Stones(g, c)} \cup
    {p \in (0..(board_size(g) + 1)) \X (0..(board_size(g) + 1)) :
        IF c = BLACK THEN p[1] \in {0, board_size(g) + 1}
                     ELSE p[2] \in {0, board_size(g) + 1}}

\* C3 as amended: two stones of a color carry the same label if and only if
\* they are joined by a chain of hex-adjacent cells of the padded grid that
\* are stones of that color or cells of that color's two border lines.
C3_Amended ==
    \A c \in Colors :
        LET nodes == PaddedNodes(game, c)
        IN  \A p \in Stones(game, c) :
                LET joined == Grow(nodes, {<<p[1] + 1, p[2] + 1>>})
                IN  \A q \in Stones(game, c) :
                        (Label(game, c, p) = Label(game, c, q)) <=>
                            (<<q[1] + 1, q[2] + 1>> \in joined)

\* Two Black stones on Black's near edge that no chain of stones joins
\* carry the same label.
C3_Witness ==
    /\ board_size(game) = 3
    /\ game.board[0][0] = BLACK /\ game.board[0][2] = BLACK
    /\ ~RefJoined(game, BLACK, <<0, 0>>, <<0, 2>>)
    /\ Label(game, BLACK, <<0, 0>>) = Label(game, BLACK, <<0, 2>>)
    /\ ~game.done

\* The cell an action identifier in [0, N*N) names.
CellOf(g, a) == <<a \div board_size(g), a % board_size(g)>>

InRange(g, a) == a \in 0..(board_size(g) * board_size(g) - 1)

\* The action identifier a names a cell of g that holds a stone.
Occupied(g, a) ==
    InRange(g, a) /\ g.board[CellOf(g, a)[1]][CellOf(g, a)[2]] # EMPTY

\* C4: in safe mode, make_move on an occupied cell raises the invalid-move
\* error naming the cell's coordinates and leaves the whole game unchanged.
C4_SafeModeRejects ==
    [][(outcome'.op = "make_move" /\ game.debug
            /\ Occupied(game, outcome'.action))
        => (/\ outcome'.raised = IllegalMove(CellOf(game, outcome'.action))
            /\ game' = game)]_vars

\* A game in safe mode has just turned down a move on a cell holding a
\* stone.
C4_Witness ==
    /\ outcome.op = "make_move"
    /\ game.debug
    /\ Occupied(game, outcome.action)
    /\ outcome.raised = IllegalMove(CellOf(game, outcome.action))
    /\ game.empty_fields = board_size(game) * board_size(game) - 1

\* C5 as stated: an action identifier outside [0, N*N) is rejected with an
\* error and the rejected call leaves the game unchanged.
C5_OutOfRangeRejected ==
    [][(outcome'.op = "make_move" /\ ~InRange(game, outcome'.action))
        => (outcome'.raised # NoError /\ game' = game)]_vars

\* C6 as stated: a game created without a choice of mode turns down a move
\* on an occupied cell with the invalid-move error and stays unchanged.
C6_SafeModeIsDefault ==
    [][(outcome'.op = "make_move" /\ config.debug = None
            /\ Occupied(game, outcome'.action))
        => (/\ outcome'.raised = IllegalMove(CellOf(game, outcome'.action))
            /\ game' = game)]_vars

\* C7: once the game is done, a call of step applies no move, does not ask
\* the opponent and leaves the game and the harness unchanged.
C7_NoMoveAfterDone ==
    [][(outcome'.op = "step" /\ env.simulator # None /\ game.done)
        => (/\ game' = game
            /\ env' = env
            /\ outcome'.raised = NoError
            /\ outcome'.ret[1].last_move_opponent = None
            /\ outcome'.ret[1].done)]_vars

\* A call of step has returned on a done game, and the empty cell it named
\* is still empty.
C7_Witness ==
    /\ outcome.op = "step" /\ outcome.raised = NoError
    /\ env.simulator # None
    /\ game.done
    /\ game.empty_fields > 0
    /\ game.board[CellOf(game, outcome.action)[1]]
                 [CellOf(game, outcome.action)[2]] = EMPTY
    /\ outcome.ret[1].last_move_opponent = None

\* The number of empty cells of the board of g.
EmptyCells(g) == Cardinality(Stones(g, EMPTY))

\* C8: empty_fields is the number of empty cells of the grid, and every
\* accepted move on an empty cell takes exactly one from it.
C8_EmptyCount ==
    /\ [](game.empty_fields = EmptyCells(game))
    /\ [][(outcome'.op = "make_move" /\ outcome'.raised = NoError)
            => game'.empty_fields = game.empty_fields - 1]_vars

\* Five moves have been accepted on a 3x3 board.
C8_Witness ==
    /\ outcome.op = "make_move" /\ outcome.raised = NoError
    /\ board_size(game) = 3
    /\ EmptyCells(game) = 4
    /\ game.empty_fields = 4

\* C9: no draws.  A done game has a winner, a full board is done, and a
\* move that fills the board of a game not yet done wins it for the mover.
C9_NoDraws ==
    /\ [](game.done => game.winner # None)
    /\ [](game.empty_fields = 0 => game.done)
    /\ [][(outcome'.op = "make_move" /\ ~game.done
                /\ game'.empty_fields = 0)
            => (/\ game'.done
                /\ game'.winner = Some(game.active_player)
                /\ outcome'.ret = Some(game.active_player))]_vars

\* The move that filled a 3x3 board completed the first chain on it.
C9_Witness ==
    /\ board_size(game) = 3
    /\ game.empty_fields = 0
    /\ \E c \in Colors : Completed(c) /\ game.winner = Some(c)
    /\ \A c \in Colors : ~RefConnected(Without(game, outcome.action), c)

\* C10: on a 1x1 board the first move wins for the color that makes it.
C10_SingleCell ==
    (board_size(game) = 1 /\ outcome.op = "make_move")
        => (/\ game.done
            /\ game.winner = Some(config.active_player)
            /\ outcome.ret = Some(config.active_player)
            /\ game.board[0][0] = config.active_player)

\* White has moved first on a 1x1 board.
C10_Witness ==
    /\ board_size(game) = 1
    /\ outcome.op = "make_move" /\ outcome.action = 0
    /\ config.active_player = WHITE
    /\ game.winner = Some(WHITE)

\* The labels present in the region grid of color c of g.
LabelsPresent(g, c) ==
    {g.regions[c][r][k] : r \in DOMAIN g.regions[c], k \in DOMAIN g.regions[c]}

\* C11 as stated: a copy just taken equals its source in grid, both region
\* grids, both region counters, active color, empty count, terminal flag
\* and winner.
C11_AsStated ==
    outcome.op = "copy" =>
        /\ twin.board = game.board
        /\ twin.regions = game.regions
        /\ twin.region_counter = game.region_counter
        /\ twin.active_player = game.active_player
        /\ twin.empty_fields = game.empty_fields
        /\ twin.done = game.done
        /\ twin.winner = game.winner

\* C11 as amended: a copy just taken equals its source in grid, both region
\* grids, active color, empty count, terminal flag and winner; each of its
\* region counters is one more than the largest label present in that
\* color's region grid, which is at most the source's counter.
C11_Amended ==
    outcome.op = "copy" =>
        /\ twin.board = game.board
        /\ twin.regions = game.regions
        /\ twin.active_player = game.active_player
        /\ twin.empty_fields = game.empty_fields
        /\ twin.done = game.done
        /\ twin.winner = game.winner
        /\ \A c \in Colors :
              /\ twin.region_counter[c] - 1 \in LabelsPresent(twin, c)
              /\ \A l \in LabelsPresent(twin, c) : l < twin.region_counter[c]
              /\ twin.region_counter[c] <= game.region_counter[c]

\* A copy has just been taken of a game on a 3x3 board in which a Black
\* stone got label 3 and was then merged into Black's near edge: the
\* source's counter is 4, the copy's is 3.
C11_Witness ==
    /\ outcome.op = "copy"
    /\ board_size(game) = 3
    /\ game.region_counter[BLACK] = 4
    /\ twin.region_counter[BLACK] = 3
    /\ twin.regions = game.regions
    /\ twin.board = game.board

\* C12: copy independence.  Once the copy is taken, a move on the copy
\* leaves every component of the source unchanged, and a move on the source
\* leaves every component of the copy unchanged.
C12_CopyIndependence ==
    /\ [][(Copied /\ outcome'.op = "twin.make_move"
                /\ outcome'.raised = NoError)
            => (game' = game /\ twin' # twin)]_vars
    /\ [][(Copied /\ outcome'.op = "make_move" /\ outcome'.raised = NoError)
            => (twin' = twin /\ game' # game)]_vars

\* The source and its copy have each been played on since the copy was
\* taken: the cell the copy's last move took is empty in the source, and
\* the two region grids differ.
C12_Witness ==
    /\ Copied
    /\ outcome.op = "twin.make_move" /\ outcome.raised = NoError
    /\ Apart = 2
    /\ Written(game) = Written(twin)
    /\ game.board[CellOf(game, outcome.action)[1]]
                 [CellOf(game, outcome.action)[2]] = EMPTY
    /\ twin.board[CellOf(twin, outcome.action)[1]]
                 [CellOf(twin, outcome.action)[2]] # EMPTY
    /\ game.regions # twin.regions

\* The other color.
Other(c) == IF c = BLACK THEN WHITE ELSE BLACK

\* The stone on the cell of g that the action identifier a names.
StoneAt(g, a) == g.board[CellOf(g, a)[1]][CellOf(g, a)[2]]

\* C13: turn handoff.  Every accepted move writes a stone of the active
\* color and leaves the other color active, also when it ends the game; so
\* the stone of each accepted move has the color opposite to the stone of
\* the accepted move before it.
C13_TurnHandoff ==
    /\ [][(outcome'.op = "make_move" /\ outcome'.raised = NoError)
            => (/\ StoneAt(game', outcome'.action) = game.active_player
                /\ game'.active_player = Other(game.active_player))]_vars
    /\ [][(/\ outcome.op = "make_move" /\ outcome.raised = NoError
            /\ outcome'.op = "make_move" /\ outcome'.raised = NoError)
            => StoneAt(game', outcome'.action) =
                   Other(StoneAt(game, outcome.action))]_vars

\* The last move completed a chain on a 3x3 board and ended the game; the
\* winner's stone is on its cell and the other color is active.
C13_Witness ==
    /\ board_size(game) = 3
    /\ outcome.op = "make_move" /\ outcome.raised = NoError
    /\ \E c \in Colors :
          /\ Completed(c)
          /\ game.done /\ game.winner = Some(c)
          /\ StoneAt(game, outcome.action) = c
          /\ game.active_player = Other(c)

\* C14 as stated: the active color in the observation that step returns is
\* the game's active color at that moment, the color to move next, and the
\* terminal flag returned with it is the game's.
C14_ReportsActiveColor ==
    (outcome.op = "step" /\ outcome.raised = NoError)
        => (/\ outcome.ret[1].active_player = game.active_player
            /\ outcome.ret[1].done = game.done)

\* The cell of the padded grid that holds the real cell of action
\* identifier a.
PaddedCellOf(g, a) == <<CellOf(g, a)[1] + 1, CellOf(g, a)[2] + 1>>

\* The non-zero labels that the six hex neighbours of the padded cell q, a
\* real cell, carry in the region grid of color c of g.
NeighbourLabels(g, c, q) ==
    {g.regions[c][q[1] + o[1]][q[2] + o[2]] : o \in HexOffsets} \ {0}

\* The smallest label of a non-empty set of labels.
Least(S) == CHOOSE m \in S : \A l \in S : m <= l

\* The region grid that a merge at the padded cell q makes of grid, near
\* being the labels found around q and least the smallest of them: q and
\* every cell that held one of them hold least, every other cell is as it
\* was.
MergedGrid(grid, q, near, least) ==
    [r \in DOMAIN grid |-> [k \in DOMAIN grid[r] |->
        IF <<r, k>> = q \/ grid[r][k] \in near THEN least ELSE grid[r][k]]]

\* The accepted move just made by color c at padded cell q, among whose
\* neighbours the labels near were found, least being the smallest of them,
\* merged them, and none of them but the smallest is left anywhere; the
\* other color's region grid is untouched.
Merged(before, after, c, q, near, least) ==
    /\ after.regions[c] = MergedGrid(before.regions[c], q, near, least)
    /\ LabelsPresent(after, c) \cap (near \ {least}) = {}
    /\ after.regions[Other(c)] = before.regions[Other(c)]

\* The move to the state after it, made by color c at padded cell q, was a
\* merge if any labels were around q.
MergedIfNear(before, after, c, q) ==
    \A near \in {NeighbourLabels(before, c, q)} :
        near # {} =>
            \A least \in {Least(near)} :
                Merged(before, after, c, q, near, least)

\* C15: merge on insert.  When a stone is put on a cell of which at least
\* one of the six hex neighbours in the padded grid carries a non-zero
\* label, the cell gets the smallest of these labels, every cell holding
\* another of them is rewritten to it so that none of the others is left in
\* the grid, and cells holding other labels are unchanged.
C15_MergeOnInsert ==
    [][(outcome'.op = "make_move" /\ outcome'.raised = NoError)
        => \A q \in {PaddedCellOf(game, outcome'.action)} :
               MergedIfNear(game, game', game.active_player, q)]_vars

\* Scenario D: on a 3x3 board White's stones at (0, 1) and (2, 1) had the
\* labels 3 and 4, and White's stone at the centre has just merged them:
\* all three carry 3 and no cell carries 4.
C15_Witness ==
    /\ board_size(game) = 3
    /\ outcome.op = "make_move" /\ outcome.action = 4
    /\ StoneAt(game, 1) = WHITE /\ StoneAt(game, 4) = WHITE
    /\ StoneAt(game, 7) = WHITE
    /\ Label(game, WHITE, <<0, 1>>) = 3
    /\ Label(game, WHITE, <<1, 1>>) = 3
    /\ Label(game, WHITE, <<2, 1>>) = 3
    /\ game.region_counter[WHITE] = 5
    /\ 4 \notin LabelsPresent(game, WHITE)

\* The game objects there are: the game, and its copy once taken.
Games == IF Copied THEN {game, twin} ELSE {game}

\* C16 as stated: in every state reached by construction from an empty
\* board, by copy() and by valid moves, each color's region counter is at
\* least 3 and greater than every label present in that color's region
\* grid.
C16_AsStated ==
    \A g \in Games : \A c \in Colors :
        /\ g.region_counter[c] >= 3
        /\ \A l \in LabelsPresent(g, c) : l < g.region_counter[c]

\* The counter of color c of g is above every label of c's grid, and is at
\* least 3 while that grid holds the far-edge sentinel 2.
CounterAbove(g, c) ==
    /\ \A l \in LabelsPresent(g, c) : l < g.region_counter[c]
    /\ g.region_counter[c] >= 2
    /\ (2 \in LabelsPresent(g, c)) => g.region_counter[c] >= 3

\* The accepted move from before to after, made by color c at padded cell
\* q with no label around it, gave q the label the counter held, which no
\* cell held before and no other cell holds after, and moved the counter
\* on by one.
FreshIfAlone(before, after, c, q) ==
    NeighbourLabels(before, c, q) = {} =>
        /\ after.regions[c][q[1]][q[2]] = before.region_counter[c]
        /\ before.region_counter[c] \notin LabelsPresent(before, c)
        /\ after.regions[c] =
               [before.regions[c] EXCEPT ![q[1]][q[2]] =
                   before.region_counter[c]]
        /\ after.region_counter[c] = before.region_counter[c] + 1
        /\ after.region_counter[Other(c)] = before.region_counter[Other(c)]

\* C16 as amended: each color's region counter is greater than every label
\* present in that color's region grid and at least 3 while the grid holds
\* sentinel 2 (at least 2 otherwise), in the game and in its copy; so a
\* stone put down with no labelled neighbour gets a label no other cell
\* holds and the counter moves on by one.
C16_Amended ==
    /\ [](\A g \in Games : \A c \in Colors : CounterAbove(g, c))
    /\ [][(outcome'.op = "make_move" /\ outcome'.raised = NoError)
            => \A q \in {PaddedCellOf(game, outcome'.action)} :
                   FreshIfAlone(game, game', game.active_player, q)]_vars
    /\ [][(outcome'.op = "twin.make_move" /\ outcome'.raised = NoError)
            => \A q \in {PaddedCellOf(twin, outcome'.action)} :
                   FreshIfAlone(twin, twin', twin.active_player, q)]_vars

\* On a 3x3 board the source gave out White's label 3 and merged it away
\* before the copy was taken, so its White counter is 4 and the copy's is
\* 3; the copy has since put a Black stone down with no labelled neighbour,
\* which got Black's label 3, and the copy's Black counter is 4.
C16_Witness ==
    /\ Copied
    /\ board_size(game) = 3
    /\ outcome.op = "twin.make_move" /\ outcome.raised = NoError
    /\ game.region_counter[WHITE] = 4
    /\ twin.region_counter[WHITE] = 3
    /\ StoneAt(twin, outcome.action) = BLACK
    /\ Label(twin, BLACK, CellOf(twin, outcome.action)) = 3
    /\ twin.region_counter[BLACK] = 4
    /\ game.region_counter[BLACK] = 3

\* C17: for each color the corner cell [N+1, N+1] of the padded grid holds
\* 2 after construction from an empty board, holds 1 or 2 at all times, and
\* once it holds 1 no move changes it.
C17_CornerOnlyFalls ==
    /\ [](outcome.op = "init" => \A c \in Colors : Corner(game, c) = 2)
    /\ [](\A c \in Colors : Corner(game, c) \in {1, 2})
    /\ [][\A c \in Colors :
              Corner(game, c) = 1 => Corner(game', c) = 1]_vars

\* On a 3x3 board a color had joined its edges before the last move, which
\* was made by that same color: its corner holds 1 as before, the other
\* color's corner holds 2.
C17_Witness ==
    /\ board_size(game) = 3
    /\ outcome.op = "make_move" /\ outcome.raised = NoError
    /\ \E c \in Colors :
          /\ StoneAt(game, outcome.action) = c
          /\ RefConnected(Without(game, outcome.action), c)
          /\ Corner(game, c) = 1
          /\ Corner(game, Other(c)) = 2

\* The labels of the real cell p of g are right for what the cell holds: a
\* stone has a non-zero label in its own color's region grid and 0 in the
\* other's, an empty cell has 0 in both.
LabelledAsHeld(g, p) ==
    IF g.board[p[1]][p[2]] = EMPTY
    THEN \A c \in Colors : Label(g, c, p) = 0
    ELSE /\ Label(g, g.board[p[1]][p[2]], p) # 0
         /\ Label(g, Other(g.board[p[1]][p[2]]), p) = 0

\* C18: after construction from an empty board or from a supplied board
\* without region grids, and after any valid moves, every stone has a
\* non-zero label in its color's region grid and 0 in the other's, every
\* empty cell has 0 in both; right after construction the active color is
\* the one the caller stated, the game is not done and has no winner.
C18_LabelsMatchBoard ==
    /\ \A p \in Cells(game) : LabelledAsHeld(game, p)
    /\ outcome.op = "init" =>
          /\ game.active_player = config.active_player
          /\ game.board = config.board
          /\ ~game.done
          /\ game.winner = None

\* A game was constructed for Black to move from a 3x3 board on which
\* White's stones already joined White's edges along the middle row and
\* Black held a corner; Black has since made a move.
C18_Witness ==
    /\ config.board_size = 3
    /\ config.active_player = BLACK
    /\ config.board[1] = [k \in 0..2 |-> WHITE]
    /\ config.board[0][0] = BLACK
    /\ outcome.op = "make_move" /\ outcome.raised = NoError
    /\ MovesMade = 1
    /\ Corner(game, WHITE) = 1
    /\ ~game.done
    /\ Label(game, WHITE, <<1, 1>>) = 1
    /\ Label(game, BLACK, <<0, 0>>) = 1

\* The call just returned reports a move of the opponent, and the stone on
\* that move's cell has the opponent's color.
OpponentStone(e, g, ret) ==
    ret.last_move_opponent # None =>
        StoneAt(g, ret.last_move_opponent[1]) = opponent(e)

\* C19: harness turn alignment.  Whenever the harness holds a game that is
\* not done, the game's active color is the harness's player color, for
\* both start configurations; so the stone a call of step places for the
\* caller has the player's color, and every stone placed for the opponent
\* policy, in reset or in step, has the opponent's color.  reset lets the
\* opponent open exactly when the player's color is not the initial active
\* color.
C19_TurnAlignment ==
    /\ []((env.simulator # None /\ ~game.done)
            => game.active_player = env.player)
    /\ [][(/\ outcome'.op = "step" /\ outcome'.raised = NoError
            /\ env.simulator # None /\ ~game.done)
            => (/\ StoneAt(game', outcome'.action) = env.player
                /\ OpponentStone(env', game', outcome'.ret[1])
                /\ (~game'.done =>
                        outcome'.ret[1].last_move_opponent # None))]_vars
    /\ [][(outcome'.op = "reset" /\ outcome'.raised = NoError)
            => (/\ OpponentStone(env', game', outcome'.ret[1])
                /\ (outcome'.ret[1].last_move_opponent # None)
                       <=> (env.player # env.active_player))]_vars

\* On a 2x2 board with Black to open and the caller playing White, the
\* opponent opened in reset, and one call of step has placed a White stone
\* for the caller and a Black one for the opponent; the game goes on.
C19_Witness ==
    /\ env.simulator # None
    /\ config.board_size = 2
    /\ env.player = WHITE /\ env.active_player = BLACK
    /\ outcome.op = "step" /\ outcome.raised = NoError
    /\ game.empty_fields = 1
    /\ ~game.done
    /\ StoneAt(game, outcome.action) = WHITE
    /\ outcome.ret[1].last_move_opponent # None
    /\ StoneAt(game, outcome.ret[1].last_move_opponent[1]) = BLACK
    /\ game.active_player = WHITE

\* The number of stones on the board of g.
StoneCount(g) == Cardinality(Stones(g, BLACK) \cup Stones(g, WHITE))

\* C20: termination.  From an empty N x N board every accepted valid move
\* adds exactly one stone, a full board is done, and so a game that is not
\* done holds fewer than N*N stones and has a valid action left: a play
\* that keeps supplying valid actions is done after at most N*N accepted
\* moves, and no state with zero empty cells is not done.
C20_Termination ==
    /\ [](outcome.op = "init" => StoneCount(game) = 0)
    /\ [][(outcome'.op = "make_move" /\ outcome'.raised = NoError)
            => StoneCount(game') = StoneCount(game) + 1]_vars
    /\ [](StoneCount(game) <= board_size(game) * board_size(game))
    /\ [](EmptyCells(game) = 0 => game.done)
    /\ [](~game.done =>
            /\ StoneCount(game) < board_size(game) * board_size(game)
            /\ get_possible_actions(game) # {})

\* A 3x3 board was filled to the last cell before a chain was completed:
\* the game was not done with one cell left, and the ninth move ended it.
C20_Witness ==
    /\ board_size(game) = 3
    /\ outcome.op = "make_move" /\ outcome.raised = NoError
    /\ EmptyCells(game) = 0
    /\ game.done
    /\ \A c \in Colors : ~RefConnected(Without(game, outcome.action), c)
    /\ StoneCount(game) = 9

====
